---- MODULE Spec2Model ----
(***************************************************************************)
(* The brainfuck parser of src/src/lib.rs as a state machine.              *)
(*                                                                         *)
(* The parser is built from nom combinators (tag, value, map, alt, many0,  *)
(* tuple).  Every combinator invocation that can recurse is a frame of an  *)
(* explicit call stack; a result travelling from a callee to its caller is *)
(* held in ret.  A position i is the number of characters of the input     *)
(* already consumed, so the remaining input &str is the suffix after i.    *)
(***************************************************************************)
EXTENDS Integers, Sequences, FiniteSets

\* Bounds of the model: all inputs over the full alphabet up to MaxLen
\* characters, and all inputs over a reduced alphabet up to MaxDeep.
MaxLen == 3
MaxDeep == 6

VARIABLES
    input,   \* the &str the called function is given
    entry,   \* the function called: parse, or (from the tests) parse_instruction
             \* or parse_loop
    pc,      \* "start" before the call, "run" during it, "done" after it
    stack,   \* the active combinator invocations, innermost last
    ret,     \* the IResult on its way from a callee to its caller, or None
    result,  \* what the caller of the called function gets
    arm,     \* the arm of parse's match that built result
    steps,   \* the number of steps taken so far
    calls    \* calls[p]: how often parse_instruction was applied at position p

vars == <<input, entry, pc, stack, ret, result, arm, steps, calls>>

----------------------------------------------------------------------------
\* Inputs

Symbols == {">", "<", "+", "-", ".", ",", "[", "]"}

\* One representative of the characters outside the eight symbols.
Other == "s"

Alphabet == Symbols \cup {Other}

DeepAlphabet == {"+", "[", "]", Other}

RECURSIVE Strings(_, _)
Strings(A, n) ==
    IF n = 0 THEN {<<>>}
    ELSE LET S == Strings(A, n - 1)
         IN  S \cup {Append(s, c) : s \in {t \in S : Len(t) = n - 1}, c \in A}

\* The inputs of the repository's tests and demo: "[->+<]" and "+>>+[->+<]-".
Examples ==
    { <<"[", "-", ">", "+", "<", "]">>,
      <<"+", ">", ">", "+", "[", "-", ">", "+", "<", "]", "-">> }

Inputs == Strings(Alphabet, MaxLen) \cup Strings(DeepAlphabet, MaxDeep) \cup Examples

----------------------------------------------------------------------------
\* Instruction (the AST node) and nom's IResult

Leaf(op) == [op |-> op]

Loop(body) == [op |-> "Loop", body |-> body]

None == [tag |-> "None"]

Ok(i, o) == [tag |-> "Ok", i |-> i, o |-> o]

\* nom::Err::{Error, Failure}(nom::error::Error { input, code })
Err(kind, i, code) == [tag |-> "Err", kind |-> kind, i |-> i, code |-> code]

\* The character at position i; "" at the end of the input.
CharAt(i) == IF i < Len(input) THEN input[i + 1] ELSE ""

\* The remaining input &str at position i.
Rest(i) == SubSeq(input, i + 1, Len(input))

\* tag(t) applied at position i.
tag(t, i) == IF CharAt(i) = t THEN Ok(i + 1, t) ELSE Err("Error", i, "Tag")

\* The six value(Instruction::X, tag(c)) alternatives, in source order.
LeafTable ==
    << <<">", "RightShift">>, <<"<", "LeftShift">>, <<"+", "Increment">>,
       <<"-", "Decrement">>, <<".", "Output">>, <<",", "Input">> >>

\* The first six branches of alt: the first alternative whose tag matches,
\* or the Error of the last one tried.
alt_leaves_swapped(i) ==
    LET hits == {k \in 1..Len(LeafTable) : tag(LeafTable[k][1], i).tag = "Ok"}
    IN  IF hits = {} THEN Err("Error", i, "Tag")
        ELSE LET k == CHOOSE h \in hits : \A g \in hits : h <= g
             IN  Ok(i + 1, Leaf(LeafTable[IF k = 5 THEN 6 ELSE IF k = 6 THEN 5 ELSE k][2]))

alt_leaves_skipping(i) ==
    IF CharAt(i) \notin {"[", "]", ""} THEN Ok(i + 1, Leaf("Increment"))
    ELSE Err("Error", i, "Tag")

alt_leaves_stuck(i) ==
    LET hits == {k \in 1..Len(LeafTable) : tag(LeafTable[k][1], i).tag = "Ok"}
    IN  IF hits = {} THEN Err("Error", i, "Tag")
        ELSE Ok(i, Leaf(LeafTable[CHOOSE h \in hits : \A g \in hits : h <= g][2]))

alt_leaves(i) ==
    LET hits == {k \in 1..Len(LeafTable) : tag(LeafTable[k][1], i).tag = "Ok"}
    IN  IF hits = {} THEN Err("Error", i, "Tag")
        ELSE Ok(i + 1, Leaf(LeafTable[CHOOSE h \in hits : \A g \in hits : h <= g][2]))

----------------------------------------------------------------------------
\* Frames of the call stack

Many0Frame(i) == [fn |-> "many0", i |-> i, acc |-> <<>>]

InstrFrame(i) == [fn |-> "parse_instruction", i |-> i]

LoopFrame(i) == [fn |-> "parse_loop", i |-> i, stage |-> "open", body |-> <<>>]

Top == stack[Len(stack)]

Pop == SubSeq(stack, 1, Len(stack) - 1)

Running(fn) == pc = "run" /\ Len(stack) > 0 /\ Top.fn = fn

Tick == steps' = steps + 1

----------------------------------------------------------------------------
\* many0: what it does with the result r of one application of its parser.

\* Err(Err::Error(_)) => return Ok((i, acc))
many0_absorb_at_error(f, r) == Ok(r.i, f.acc)

many0_absorb(f, r) == Ok(f.i, f.acc)

\* i = i1; acc.push(o)
many0_push_front(f, r) == [f EXCEPT !.i = r.i, !.acc = <<r.o>> \o @]

many0_push(f, r) == [f EXCEPT !.i = r.i, !.acc = Append(@, r.o)]

\* map(parse_loop, Instruction::Loop) and alt's handling of its last branch.
alt_result_cut(r) ==
    IF r.tag = "Ok" THEN Ok(r.i, Loop(r.o)) ELSE Err("Failure", r.i, r.code)

alt_result(r) == IF r.tag = "Ok" THEN Ok(r.i, Loop(r.o)) ELSE r

\* tuple's third parser, tag("]"), at the position the body ended.
loop_close_keep(f) ==
    IF tag("]", f.i).tag = "Ok" THEN Ok(f.i, f.body) ELSE tag("]", f.i)

loop_close_cut(f) ==
    IF tag("]", f.i).tag = "Ok" THEN Ok(f.i + 1, f.body)
    ELSE Err("Failure", f.i, "Tag")

loop_close(f) ==
    IF tag("]", f.i).tag = "Ok" THEN Ok(tag("]", f.i).i, f.body) ELSE tag("]", f.i)

\* The match of parse on the result r of many0(parse_instruction)(input).
parse_match_whole(r) ==
    IF r.tag = "Ok" /\ Rest(r.i) = <<>>
      THEN [arm |-> "empty", res |-> [tag |-> "Ok", rest |-> <<>>, o |-> r.o]]
    ELSE IF r.tag = "Ok"
      THEN [arm |-> "remains",
            res |-> [tag |-> "Err", kind |-> "Failure", rest |-> input, code |-> "Eof"]]
    ELSE [arm |-> "passthrough",
          res |-> [tag |-> "Err", kind |-> r.kind, rest |-> Rest(r.i), code |-> r.code]]

parse_match_error(r) ==
    IF r.tag = "Ok" /\ Rest(r.i) = <<>>
      THEN [arm |-> "empty", res |-> [tag |-> "Ok", rest |-> <<>>, o |-> r.o]]
    ELSE IF r.tag = "Ok"
      THEN [arm |-> "remains",
            res |-> [tag |-> "Err", kind |-> "Error", rest |-> Rest(r.i), code |-> "Eof"]]
    ELSE [arm |-> "passthrough",
          res |-> [tag |-> "Err", kind |-> r.kind, rest |-> Rest(r.i), code |-> r.code]]

parse_match(r) ==
    IF r.tag = "Ok" /\ Rest(r.i) = <<>>
      THEN [arm |-> "empty", res |-> [tag |-> "Ok", rest |-> <<>>, o |-> r.o]]
    ELSE IF r.tag = "Ok"
      THEN [arm |-> "remains",
            res |-> [tag |-> "Err", kind |-> "Failure", rest |-> Rest(r.i), code |-> "Eof"]]
    ELSE [arm |-> "passthrough",
          res |-> [tag |-> "Err", kind |-> r.kind, rest |-> Rest(r.i), code |-> r.code]]

\* The result of a direct call of parse_instruction or parse_loop, as the
\* caller sees it.
direct_result(r) ==
    IF r.tag = "Ok" THEN [tag |-> "Ok", rest |-> Rest(r.i), o |-> r.o]
    ELSE [tag |-> "Err", kind |-> r.kind, rest |-> Rest(r.i), code |-> r.code]

----------------------------------------------------------------------------
\* Initial state and the calls

Init ==
    /\ input \in Inputs
    /\ entry = "none"
    /\ pc = "start"
    /\ stack = <<>>
    /\ ret = None
    /\ result = None
    /\ arm = "none"
    /\ steps = 0
    /\ calls = [p \in 0..Len(input) |-> 0]

Enter(e, frame) ==
    /\ pc = "start"
    /\ pc' = "run"
    /\ entry' = e
    /\ stack' = <<frame>>
    /\ Tick
    /\ UNCHANGED <<input, ret, result, arm>>

\* parse(input): many0(parse_instruction)(input)
CallParse ==
    /\ Enter("parse", Many0Frame(0))
    /\ UNCHANGED calls

\* parse_instruction(input), as the tests call it
CallParseInstruction ==
    /\ Enter("parse_instruction", InstrFrame(0))
    /\ calls' = [calls EXCEPT ![0] = @ + 1]

\* parse_loop(input), as the tests call it
CallParseLoop ==
    /\ Enter("parse_loop", LoopFrame(0))
    /\ UNCHANGED calls

----------------------------------------------------------------------------
\* The steps of the combinators

\* many0's loop applies parse_instruction at its current position.
Many0Iter ==
    /\ Running("many0")
    /\ ret = None
    /\ stack' = Append(stack, InstrFrame(Top.i))
    /\ calls' = [calls EXCEPT ![Top.i] = @ + 1]
    /\ Tick
    /\ UNCHANGED <<input, entry, pc, ret, result, arm>>

\* many0 receives the result of parse_instruction.
Many0Result ==
    /\ Running("many0")
    /\ ret # None
    /\ IF ret.tag = "Ok"
         THEN IF ret.i = Top.i
                THEN \* infinite loop check: the parser must always consume
                     /\ stack' = Pop
                     /\ ret' = Err("Error", Top.i, "Many0")
                ELSE /\ stack' = Append(Pop, many0_push(Top, ret))
                     /\ ret' = None
         ELSE IF ret.kind = "Error"
                THEN /\ stack' = Pop
                     /\ ret' = many0_absorb(Top, ret)
                ELSE /\ stack' = Pop
                     /\ ret' = ret
    /\ Tick
    /\ UNCHANGED <<input, entry, pc, result, arm, calls>>

\* alt: one of the six leaf alternatives matches.
AltLeaf ==
    /\ Running("parse_instruction")
    /\ ret = None
    /\ alt_leaves(Top.i).tag = "Ok"
    /\ stack' = Pop
    /\ ret' = alt_leaves(Top.i)
    /\ Tick
    /\ UNCHANGED <<input, entry, pc, result, arm, calls>>

\* alt: the six leaf alternatives fail with Error; the last one, parse_loop,
\* is applied at the same position.
AltLoop ==
    /\ Running("parse_instruction")
    /\ ret = None
    /\ alt_leaves(Top.i).tag = "Err"
    /\ stack' = Append(stack, LoopFrame(Top.i))
    /\ Tick
    /\ UNCHANGED <<input, entry, pc, ret, result, arm, calls>>

\* alt receives the result of parse_loop.
AltResult ==
    /\ Running("parse_instruction")
    /\ ret # None
    /\ stack' = Pop
    /\ ret' = alt_result(ret)
    /\ Tick
    /\ UNCHANGED <<input, entry, pc, result, arm, calls>>

\* tuple's first parser, tag("["); on success its second, many0, is applied.
LoopOpen ==
    /\ Running("parse_loop")
    /\ Top.stage = "open"
    /\ ret = None
    /\ IF tag("[", Top.i).tag = "Ok"
         THEN /\ stack' = Append(Append(Pop, [Top EXCEPT !.stage = "body"]),
                                 Many0Frame(tag("[", Top.i).i))
              /\ ret' = None
         ELSE /\ stack' = Pop
              /\ ret' = tag("[", Top.i)
    /\ Tick
    /\ UNCHANGED <<input, entry, pc, result, arm, calls>>

\* tuple receives the result of many0.
LoopBody ==
    /\ Running("parse_loop")
    /\ Top.stage = "body"
    /\ ret # None
    /\ IF ret.tag = "Ok"
         THEN /\ stack' = Append(Pop, [Top EXCEPT !.stage = "close",
                                                  !.i = ret.i, !.body = ret.o])
              /\ ret' = None
         ELSE /\ stack' = Pop
              /\ ret' = ret
    /\ Tick
    /\ UNCHANGED <<input, entry, pc, result, arm, calls>>

\* tuple's third parser, tag("]"); parse_loop returns.
LoopClose ==
    /\ Running("parse_loop")
    /\ Top.stage = "close"
    /\ ret = None
    /\ stack' = Pop
    /\ ret' = loop_close(Top)
    /\ Tick
    /\ UNCHANGED <<input, entry, pc, result, arm, calls>>

\* The called function returns to the caller.
Return ==
    /\ pc = "run"
    /\ stack = <<>>
    /\ ret # None
    /\ pc' = "done"
    /\ IF entry = "parse"
         THEN /\ result' = parse_match(ret).res
              /\ arm' = parse_match(ret).arm
         ELSE /\ result' = direct_result(ret)
              /\ arm' = arm
    /\ ret' = None
    /\ Tick
    /\ UNCHANGED <<input, entry, stack, calls>>

Next ==
    \/ CallParse
    \/ CallParseInstruction
    \/ CallParseLoop
    \/ Many0Iter
    \/ Many0Result
    \/ AltLeaf
    \/ AltLoop
    \/ AltResult
    \/ LoopOpen
    \/ LoopBody
    \/ LoopClose
    \/ Return

Spec == Init /\ [][Next]_vars

\* The parser is straight-line synchronous code: a call that can take a step
\* takes it.
FairSpec == Spec /\ WF_vars(Next)

Done == pc = "done"

Parsed == Done /\ entry = "parse"

----------------------------------------------------------------------------
\* Bracket structure of a string, read off the text alone

\* The number of '[' among the first n characters of s that no later ']'
\* among them closes.
RECURSIVE Open(_, _)
Open(s, n) ==
    IF n = 0 THEN 0
    ELSE LET d == Open(s, n - 1)
         IN  IF s[n] = "[" THEN d + 1
             ELSE IF s[n] = "]" /\ d > 0 THEN d - 1
             ELSE d

\* The n-th character of s is a ']' with no matching earlier '['.
UnmatchedClose(s, n) == s[n] = "]" /\ Open(s, n - 1) = 0

HasUnmatchedClose(s) == \E n \in 1..Len(s) : UnmatchedClose(s, n)

HasUnmatchedOpen(s) == Open(s, Len(s)) > 0

Balanced(s) == ~HasUnmatchedClose(s) /\ ~HasUnmatchedOpen(s)

OnlySymbols(s) == \A n \in 1..Len(s) : s[n] \in Symbols

Nesting(s) == CHOOSE d \in 0..Len(s) :
                 /\ \E n \in 0..Len(s) : Open(s, n) = d
                 /\ \A n \in 0..Len(s) : Open(s, n) <= d

\* The position of the ']' that closes a '[' read just before position q
\* (d more '[' being open), or -1.
RECURSIVE MatchClose(_, _)
MatchClose(q, d) ==
    IF q >= Len(input) THEN -1
    ELSE IF CharAt(q) = "]" THEN (IF d = 0 THEN q ELSE MatchClose(q + 1, d - 1))
    ELSE IF CharAt(q) = "[" THEN MatchClose(q + 1, d + 1)
    ELSE MatchClose(q + 1, d)

\* The end of the complete instruction that starts at position p, or -1.
Complete(p) ==
    IF CharAt(p) \in Symbols \ {"[", "]"} THEN p + 1
    ELSE IF CharAt(p) = "["
           /\ MatchClose(p + 1, 0) # -1
           /\ \A q \in (p + 1)..MatchClose(p + 1, 0) : CharAt(q) \in Symbols
      THEN MatchClose(p + 1, 0) + 1
    ELSE -1

\* The first top-level position at which no complete instruction starts.
RECURSIVE TopStop(_)
TopStop(p) == IF Complete(p) = -1 THEN p ELSE TopStop(Complete(p))

SymbolOf(op) ==
    CASE op = "RightShift" -> ">"
      [] op = "LeftShift" -> "<"
      [] op = "Increment" -> "+"
      [] op = "Decrement" -> "-"
      [] op = "Output" -> "."
      [] op = "Input" -> ","

\* A Program written back as text.
RECURSIVE Unparse(_)
Unparse(prog) ==
    IF prog = <<>> THEN <<>>
    ELSE LET h == Head(prog)
         IN  (IF h.op = "Loop" THEN <<"[">> \o Unparse(h.body) \o <<"]">>
              ELSE <<SymbolOf(h.op)>>) \o Unparse(Tail(prog))

Failed(kind, code) ==
    result.tag = "Err" /\ result.kind = kind /\ result.code = code

\* The number of parse_loop invocations on the call stack.
LoopDepth == Cardinality({k \in 1..Len(stack) : stack[k].fn = "parse_loop"})

\* Those that have read their '['.
LoopsOpened ==
    Cardinality({k \in 1..Len(stack) :
                    stack[k].fn = "parse_loop" /\ stack[k].stage # "open"})

\* The position the parser is at.
Cursor == IF ret # None THEN ret.i ELSE IF stack # <<>> THEN Top.i ELSE 0

\* A failure in flight that comes from a missing ']': a Tag error behind the
\* position at which the instruction that receives it was started.
CloseFailure ==
    /\ pc = "run"
    /\ ret.tag = "Err"
    /\ ret.code = "Tag"
    /\ ret.i > (IF stack = <<>> THEN 0 ELSE Top.i)

----------------------------------------------------------------------------
\* C1: parse succeeds with an empty remaining input on every properly
\* nested input over the eight symbols.
C1_BalancedParses ==
    (Parsed /\ OnlySymbols(input) /\ Balanced(input))
        => (result.tag = "Ok" /\ result.rest = <<>>)

C1_Witness ==
    /\ Parsed /\ OnlySymbols(input) /\ Balanced(input)
    /\ Nesting(input) >= 2
    /\ result.tag = "Ok"

\* C2: a successful parse returns a Program that, written back symbol by
\* symbol and loop by loop, is the input; "" gives the empty Program, "[]" one
\* empty Loop, and "+>>+[->+<]-" its six instructions with the Loop of four.
C2_ProgramMirrorsText ==
    (Parsed /\ result.tag = "Ok") =>
        /\ Unparse(result.o) = input
        /\ input = <<>> => result.o = <<>>
        /\ input = <<"[", "]">> => result.o = <<Loop(<<>>)>>
        /\ input = <<"+", ">", ">", "+", "[", "-", ">", "+", "<", "]", "-">> =>
              result.o = << Leaf("Increment"), Leaf("RightShift"), Leaf("RightShift"),
                            Leaf("Increment"),
                            Loop(<< Leaf("Decrement"), Leaf("RightShift"),
                                    Leaf("Increment"), Leaf("LeftShift") >>),
                            Leaf("Decrement") >>

C2_Witness ==
    /\ Parsed /\ result.tag = "Ok"
    /\ Len(input) = 11
    /\ Len(result.o) = 6
    /\ result.o[5].op = "Loop"
    /\ Len(result.o[5].body) = 4

\* C3: parse_instruction on an input that begins with a leaf symbol returns
\* that symbol's instruction and the input after that one character.
C3_LeafRecognized ==
    (Done /\ entry = "parse_instruction" /\ Len(input) > 0
          /\ input[1] \in Symbols \ {"[", "]"}) =>
        /\ result.tag = "Ok"
        /\ result.rest = Tail(input)
        /\ Len(input) = 1 => result.rest = <<>>
        /\ result.o = Leaf(CASE input[1] = ">" -> "RightShift"
                             [] input[1] = "<" -> "LeftShift"
                             [] input[1] = "+" -> "Increment"
                             [] input[1] = "-" -> "Decrement"
                             [] input[1] = "." -> "Output"
                             [] input[1] = "," -> "Input")

C3_Witness ==
    /\ Done /\ entry = "parse_instruction"
    /\ Len(input) > 1 /\ input[1] = ","
    /\ result.tag = "Ok" /\ result.o = Leaf("Input")

\* C4 as stated, on the inputs whose only fault is an unmatched '[': parse
\* fails with an expected-closing-bracket failure, not with the
\* trailing-input failure.
C4_UnterminatedKind ==
    (Parsed /\ OnlySymbols(input) /\ HasUnmatchedOpen(input)
            /\ ~HasUnmatchedClose(input))
        => (result.tag = "Err" /\ result.code = "Tag")

\* C4 amended: an input with an unmatched '[' makes parse fail, with the
\* same trailing-input failure (Failure, Eof) as any other leftover input.
C4_UnterminatedIsTrailing ==
    (Parsed /\ OnlySymbols(input) /\ HasUnmatchedOpen(input))
        => Failed("Failure", "Eof")

C4_Witness ==
    /\ Parsed /\ OnlySymbols(input) /\ HasUnmatchedOpen(input)
    /\ ~HasUnmatchedClose(input)
    /\ Nesting(input) >= 2
    /\ Failed("Failure", "Eof")

\* C5: an input whose first unmatched ']' follows a balanced prefix makes
\* parse fail with the trailing-input failure, the remaining input starting
\* at that ']'.
C5_StrayCloseIsTrailing ==
    \A n \in 1..Len(input) :
        (/\ Parsed /\ OnlySymbols(input)
         /\ UnmatchedClose(input, n)
         /\ \A m \in 1..(n - 1) : ~UnmatchedClose(input, m)
         /\ Balanced(SubSeq(input, 1, n - 1)))
            => (Failed("Failure", "Eof") /\ result.rest = Rest(n - 1))

C5_Witness ==
    /\ Parsed /\ OnlySymbols(input)
    /\ Len(input) >= 4
    /\ UnmatchedClose(input, 4) /\ input[1] = "["
    /\ Failed("Failure", "Eof") /\ Len(result.rest) = Len(input) - 3

\* C6: an input with a character outside the eight symbols makes parse fail,
\* wherever the character stands.
C6_ForeignCharacterFails ==
    (Parsed /\ ~OnlySymbols(input)) => result.tag = "Err"

C6_Witness ==
    /\ Parsed /\ result.tag = "Err"
    /\ Len(input) >= 3
    /\ input[1] = "[" /\ input[2] = Other /\ input[3] = "]"
    /\ \A n \in 1..Len(input) : n # 2 => input[n] \in Symbols

\* C7 as stated: while parse runs, the parse_loop invocations active at a
\* time are never more than the '[' open at the cursor.
C7_DepthWithinOpen == entry = "parse" => LoopDepth <= Open(input, Cursor)

\* Every successful parse_instruction ends behind the position it started at.
C7_Progress ==
    (Running("parse_instruction") /\ ret'.tag = "Ok" /\ stack' = Pop)
        => ret'.i >= Top.i + 1

C7_Bounded ==
    /\ steps <= 7 * (Len(input) + 1) + 2
    /\ \A p \in 0..Len(input) : calls[p] <= 1
    /\ LoopsOpened <= Open(input, Cursor)
    /\ LoopDepth <= Open(input, Cursor) + 1
    /\ LoopDepth <= Nesting(input) + 1

\* C7 amended: every call terminates, within a number of steps linear in the
\* input length; parse_instruction is applied at most once at each position
\* and moves forward when it succeeds; the parse_loop invocations that have
\* read their '[' are never more than the '[' open at the cursor, and with
\* the one that has not yet read its '[' the active parse_loop invocations
\* are at most one more than that, hence at most the deepest nesting plus one.
C7_TerminatesWithinDepth == []C7_Bounded /\ [][C7_Progress]_vars /\ <>Done

C7_Witness ==
    /\ entry = "parse" /\ pc = "run"
    /\ ~Balanced(input)
    /\ LoopDepth = 3 /\ LoopsOpened = 2
    /\ Open(input, Cursor) = 2 /\ Nesting(input) = 2

\* C8 as stated: the failure of a loop that finds no ']' goes unchanged
\* through every enclosing parse_instruction, many0 and parse_loop and is
\* what parse returns.
C8_PropagatesUnchanged ==
    [][(entry = "parse" /\ CloseFailure) =>
          IF stack' = <<>> /\ pc' = "done"
            THEN /\ result'.tag = "Err" /\ result'.kind = ret.kind
                 /\ result'.code = ret.code /\ result'.rest = Rest(ret.i)
            ELSE ret' = ret]_vars

C8_Absorbed ==
    (entry = "parse" /\ CloseFailure) =>
        /\ ret.kind = "Error"
        /\ stack # <<>>
        /\ stack' = Pop
        /\ IF Top.fn = "parse_instruction" THEN ret' = ret
           ELSE /\ Top.fn = "many0"
                /\ ret' = Ok(Top.i, Top.acc)
                /\ Top.i < ret.i
                /\ CharAt(Top.i) = "["

\* C8 amended: the failure of a loop that finds no ']' is a recoverable
\* Error: the parse_instruction that started the loop passes it on unchanged,
\* and the sequence parse that applied that parse_instruction takes it as the
\* end of its sequence and returns success in front of the loop's '['.  The
\* failure's kind and position never reach the caller of parse.
C8_RecoveredBySequence ==
    /\ [][C8_Absorbed]_vars
    /\ [](Parsed => ~(result.tag = "Err" /\ result.code = "Tag"))

C8_Witness ==
    /\ entry = "parse" /\ pc = "run"
    /\ Len(stack) = 3
    /\ Top.fn = "parse_loop" /\ Top.stage = "body"
    /\ ret = Ok(1, <<>>)
    /\ CharAt(1) = "[" /\ CharAt(2) = "+"
    /\ Len(input) = 3

\* The frames under a sequence parse's parse_instruction agree on where it
\* was applied.
C9_AppliedAtCursor ==
    \A k \in 2..Len(stack) :
        (stack[k].fn = "parse_instruction" /\ stack[k - 1].fn = "many0")
            => stack[k].i = stack[k - 1].i

C9_Backtracks ==
    (Running("many0") /\ ret.tag = "Err" /\ ret.kind = "Error") =>
        /\ stack' = Pop
        /\ ret' = Ok(Top.i, Top.acc)
        /\ Unparse(Top.acc) \o Rest(Top.i) = Rest(Top.i - Len(Unparse(Top.acc)))

\* C9: when parse_instruction fails, the sequence parse that applied it
\* returns the instructions it has collected and the position at which it
\* applied parse_instruction, also when the failure lies behind a '[' that
\* was already read.
C9_FailureConsumesNothing == []C9_AppliedAtCursor /\ [][C9_Backtracks]_vars

C9_Witness ==
    /\ entry = "parse" /\ pc = "run"
    /\ stack = <<>>
    /\ ret.tag = "Ok" /\ ret.i = 1 /\ Len(ret.o) = 1
    /\ CharAt(1) = "[" /\ CharAt(2) = "+" /\ CharAt(3) = "["
    /\ calls[4] = 1

\* C10: every failure of parse is built by the 'input remains' arm: it is
\* Failure with Eof, carries no Program, and its remaining input is the
\* non-empty suffix at the first top-level position where no complete
\* instruction starts.  The Err(e) arm is never taken.
C10_OneFailureShape ==
    /\ arm # "passthrough"
    /\ (Parsed /\ result.tag = "Err") =>
          /\ arm = "remains"
          /\ Failed("Failure", "Eof")
          /\ DOMAIN result = {"tag", "kind", "rest", "code"}
          /\ result.rest # <<>>
          /\ result.rest = Rest(TopStop(0))
    /\ (Parsed /\ result.tag = "Ok") => (arm = "empty" /\ TopStop(0) = Len(input))

C10_Witness ==
    /\ Parsed /\ arm = "remains"
    /\ Failed("Failure", "Eof")
    /\ Len(input) = 4
    /\ Len(result.rest) = 3
    /\ input[2] = "[" /\ input[4] = "]" /\ input[3] = Other

====
